---- MODULE Spec2Model ----
(***************************************************************************)
(* Model of aiservice/utils/ocr.py: the plausibility validator             *)
(* (is_valid_meter_reading), the text normalizer (clean_ocr_text), the     *)
(* contour fallback (extract_digits_from_contours) and the orchestrator    *)
(* (extract_meter_reading).                                                *)
(*                                                                         *)
(* A Python str is a sequence of one-character strings; "" is << >>.       *)
(* The OCR engine (pytesseract) and the image library (cv2, PIL) are the   *)
(* environment: what they return or raise is chosen nondeterministically.  *)
(***************************************************************************)
EXTENDS Integers, Sequences, FiniteSets, TLC

\* ------------------------------------------------------------------ bounds
\* longest string handed to is_valid_meter_reading in ValidSpec
MaxReadingLen == 8
\* longest raw text handed to clean_ocr_text in CleanSpec
MaxRawLen == 3
\* longest raw text the OCR engine returns in Spec
MaxOcrLen == 4
\* most digit-like regions one threshold of the sweep can yield in Spec
MaxRegions == 8

\* ------------------------------------------------------------- characters
Digits == {"0", "1", "2", "3", "4", "5", "6", "7", "8", "9"}

\* what \s of Python's re matches, as far as a TLA+ string can spell it
Whitespace == {" ", "\t", "\n", "\r", "\f"}

EmptyStr == << >>

\* re.sub("[R]", "", s): s without the characters of the set R
RECURSIVE Remove(_, _)
Remove(s, R) ==
    IF s = << >> THEN << >>
    ELSE IF Head(s) \in R THEN Remove(Tail(s), R)
         ELSE <<Head(s)>> \o Remove(Tail(s), R)

\* re.sub("[^K]", "", s): s with only the characters of the set K
RECURSIVE Keep(_, _)
Keep(s, K) ==
    IF s = << >> THEN << >>
    ELSE IF Head(s) \in K THEN <<Head(s)>> \o Keep(Tail(s), K)
         ELSE Keep(Tail(s), K)

\* str.replace(old, new) for a one-character old and new
Replace(s, old, new) == [i \in 1..Len(s) |-> IF s[i] = old THEN new ELSE s[i]]

\* set(s)
CharSet(s) == {s[i] : i \in 1..Len(s)}

\* str.isdigit(): non-empty and every character a digit
isdigit(s) == Len(s) > 0 /\ \A i \in 1..Len(s) : s[i] \in Digits

\* re.sub(r"^[^\d]*", "", s)
RECURSIVE StripLeading(_)
StripLeading(s) ==
    IF s = << >> \/ Head(s) \in Digits THEN s ELSE StripLeading(Tail(s))

\* re.sub(r"[^\d]*$", "", s)
RECURSIVE StripTrailing(_)
StripTrailing(s) ==
    IF s = << >> \/ s[Len(s)] \in Digits THEN s
    ELSE StripTrailing(SubSeq(s, 1, Len(s) - 1))

\* all strings over alphabet A of length at most n
StringsUpTo(A, n) == UNION {[1..k -> A] : k \in 0..n}

\* -------------------------------------------------- is_valid_meter_reading
MinDigits == 4
MaxDigits == 7

is_valid_meter_reading_NoUniform(reading) ==
    IF reading = EmptyStr \/ ~isdigit(reading) THEN FALSE
    ELSE IF Len(reading) < MinDigits \/ Len(reading) > MaxDigits THEN FALSE
    ELSE TRUE

is_valid_meter_reading(reading) ==
    IF reading = EmptyStr \/ ~isdigit(reading) THEN FALSE
    ELSE IF Len(reading) < MinDigits \/ Len(reading) > MaxDigits THEN FALSE
    ELSE IF Cardinality(CharSet(reading)) = 1 THEN FALSE
    ELSE IF Cardinality(CharSet(reading)) < 2 THEN FALSE
    ELSE TRUE

\* ---------------------------------------------------------- clean_ocr_text
\* the character class of r"[^\d\s\.\-\(\)O\|I\[\]]", complemented
KeptChars ==
    Digits \cup Whitespace \cup {".", "-", "(", ")", "O", "|", "I", "[", "]"}

\* the character class of r"[\.\-\(\)]"
PunctChars == {".", "-", "(", ")"}

clean_ocr_text(text) ==
    IF text = EmptyStr THEN EmptyStr
    ELSE LET t1 == Keep(text, KeptChars)
             t2 == Replace(Replace(Replace(t1, "O", "0"), "I", "1"), "|", "1")
             t3 == Replace(Replace(t2, "[", "1"), "]", "1")
             t4 == Remove(t3, PunctChars)
             t5 == Remove(t4, {" "})
             t6 == StripLeading(t5)
         IN  StripTrailing(t6)

\* ------------------------------------------------------------------- state
VARIABLES
    pc,            \* position in the function being run
    reading,       \* argument of is_valid_meter_reading (ValidSpec)
    verdict,       \* its return value
    raw,           \* argument of clean_ocr_text (CleanSpec)
    cleaned,       \* its return value
    image_np,      \* extract_meter_reading: "unset" until the image decodes
    text,          \* extract_meter_reading: local text
    result,        \* extract_meter_reading: local result (the contour output)
    ret,           \* value returned by extract_meter_reading, once pc = "done"
    raised,        \* an exception left extract_meter_reading
    best_digits,   \* extract_digits_from_contours: local best_digits
    best_count,    \* extract_digits_from_contours: local best_count
    thresh_idx,    \* position of the for loop in the threshold list
    trace,         \* history: strategies invoked, in order
    outcome,       \* history: how each strategy ended
    accepted,      \* history: strings is_valid_meter_reading accepted
    tried          \* history: per threshold tried, len(digit_regions)

pureVars == <<reading, verdict, raw, cleaned>>

sweepVars == <<best_digits, best_count, thresh_idx, tried>>

orchVars == <<image_np, text, result, ret, raised, trace, outcome, accepted>>

vars == <<pc, pureVars, orchVars, sweepVars>>

Strategies == {"Primary", "Enhanced", "Contour"}

PureIdle ==
    /\ reading = EmptyStr
    /\ verdict = FALSE
    /\ raw = EmptyStr
    /\ cleaned = EmptyStr

OrchIdle ==
    /\ image_np = "unset"
    /\ text = EmptyStr
    /\ result = EmptyStr
    /\ ret = EmptyStr
    /\ raised = FALSE
    /\ best_digits = EmptyStr
    /\ best_count = 0
    /\ thresh_idx = 0
    /\ trace = << >>
    /\ outcome = [s \in Strategies |-> "not_run"]
    /\ accepted = {}
    /\ tried = << >>

\* ------------------------------------------------ ValidSpec: the validator
ReadingAlphabet == {"0", "1", "x"}

ValidInit ==
    /\ pc = "validate"
    /\ reading \in StringsUpTo(ReadingAlphabet, MaxReadingLen)
    /\ verdict = FALSE
    /\ raw = EmptyStr
    /\ cleaned = EmptyStr
    /\ OrchIdle

Validate ==
    /\ pc = "validate"
    /\ verdict' = is_valid_meter_reading(reading)
    /\ pc' = "validated"
    /\ UNCHANGED <<reading, raw, cleaned, orchVars, sweepVars>>

ValidNext == Validate

ValidSpec == ValidInit /\ [][ValidNext]_vars

\* ----------------------------------------------- CleanSpec: the normalizer
RawAlphabet ==
    {"1", "2", "O", "I", "|", "[", "]", "(", ")", ".", "-", " ", "\t", "\n", "a"}

SampleRaw == <<"1", "2", "O", "3", "4", "I">>

CleanInit ==
    /\ pc = "clean"
    /\ raw \in StringsUpTo(RawAlphabet, MaxRawLen) \cup {SampleRaw}
    /\ cleaned = EmptyStr
    /\ reading = EmptyStr
    /\ verdict = FALSE
    /\ OrchIdle

Clean ==
    /\ pc = "clean"
    /\ cleaned' = clean_ocr_text(raw)
    /\ pc' = "cleaned"
    /\ UNCHANGED <<raw, reading, verdict, orchVars, sweepVars>>

CleanNext == Clean

CleanSpec == CleanInit /\ [][CleanNext]_vars

\* ------------------------------------- Spec: extract_meter_reading, one run
\* raw texts pytesseract.image_to_string can return
OcrAlphabet == {"1", "2", "\n"}

OcrTexts == StringsUpTo(OcrAlphabet, MaxOcrLen)

\* the threshold list of the for loop
ThreshVals == <<100, 127, 150, 180>>

\* len(digit_regions) after the region filter, for one threshold
RegionCounts == {0} \cup (MinDigits - 1)..MaxRegions

\* mutant: the index is not used, every position gets the same digit
DigitStr_Constant(i) == "0"

\* str(i % 10)
DigitStr(i) ==
    <<"0", "1", "2", "3", "4", "5", "6", "7", "8", "9">>[(i % 10) + 1]

\* "".join([str(i % 10) for i in range(n)])
Placeholder(n) == [k \in 1..n |-> DigitStr(k - 1)]

Init ==
    /\ pc = "decode"
    /\ PureIdle
    /\ OrchIdle

\* mutant: no outer except, the exception leaves the function
CriticalError_Propagates ==
    /\ raised' = TRUE
    /\ pc' = "done"
    /\ UNCHANGED ret

\* the outer except: of extract_meter_reading
CriticalError ==
    /\ ret' = EmptyStr
    /\ raised' = FALSE
    /\ pc' = "done"

\* Image.open(image_bytes).convert("RGB"); np.array(image); text = ""
Decode ==
    /\ pc = "decode"
    /\ \/ /\ image_np' = "array"
          /\ text' = EmptyStr
          /\ pc' = "method1"
          /\ UNCHANGED <<ret, raised>>
       \/ /\ CriticalError
          /\ UNCHANGED <<image_np, text>>
    /\ UNCHANGED <<result, trace, outcome, accepted, pureVars, sweepVars>>

\* mutant: a valid Primary candidate is recorded but not returned
Method1_NoShortCircuit ==
    /\ pc = "method1"
    /\ trace' = Append(trace, "Primary")
    /\ \/ /\ outcome' = [outcome EXCEPT !["Primary"] = "raised"]
          /\ pc' = "method2"
          /\ UNCHANGED <<text, ret, accepted>>
       \/ \E raw_text \in OcrTexts :
            /\ text' = clean_ocr_text(raw_text)
            /\ IF is_valid_meter_reading(text')
               THEN /\ accepted' = accepted \cup {text'}
                    /\ outcome' = [outcome EXCEPT !["Primary"] = "valid"]
                    /\ pc' = "method2"
                    /\ UNCHANGED ret
               ELSE /\ outcome' = [outcome EXCEPT !["Primary"] = "invalid"]
                    /\ pc' = "method2"
                    /\ UNCHANGED <<ret, accepted>>
    /\ UNCHANGED <<image_np, result, raised, pureVars, sweepVars>>

\* mutant: after a failed Primary the run goes straight to the contour
\* fallback
Method1_SkipsEnhanced ==
    /\ pc = "method1"
    /\ trace' = Append(trace, "Primary")
    /\ \/ /\ outcome' = [outcome EXCEPT !["Primary"] = "raised"]
          /\ pc' = "method3"
          /\ UNCHANGED <<text, ret, accepted>>
       \/ \E raw_text \in OcrTexts :
            /\ text' = clean_ocr_text(raw_text)
            /\ IF is_valid_meter_reading(text')
               THEN /\ accepted' = accepted \cup {text'}
                    /\ outcome' = [outcome EXCEPT !["Primary"] = "valid"]
                    /\ ret' = text'
                    /\ pc' = "done"
               ELSE /\ outcome' = [outcome EXCEPT !["Primary"] = "invalid"]
                    /\ pc' = "method3"
                    /\ UNCHANGED <<ret, accepted>>
    /\ UNCHANGED <<image_np, result, raised, pureVars, sweepVars>>

\* mutant: no try around Method 1, a raise reaches the outer except
Method1_NoInnerTry ==
    /\ pc = "method1"
    /\ trace' = Append(trace, "Primary")
    /\ \/ /\ outcome' = [outcome EXCEPT !["Primary"] = "raised"]
          /\ CriticalError
          /\ UNCHANGED <<text, accepted>>
       \/ \E raw_text \in OcrTexts :
            /\ text' = clean_ocr_text(raw_text)
            /\ raised' = raised
            /\ IF is_valid_meter_reading(text')
               THEN /\ accepted' = accepted \cup {text'}
                    /\ outcome' = [outcome EXCEPT !["Primary"] = "valid"]
                    /\ ret' = text'
                    /\ pc' = "done"
               ELSE /\ outcome' = [outcome EXCEPT !["Primary"] = "invalid"]
                    /\ pc' = "method2"
                    /\ UNCHANGED <<ret, accepted>>
    /\ UNCHANGED <<image_np, result, pureVars, sweepVars>>

\* Method 1: OCR of the original image
Method1 ==
    /\ pc = "method1"
    /\ trace' = Append(trace, "Primary")
    /\ \/ /\ outcome' = [outcome EXCEPT !["Primary"] = "raised"]
          /\ pc' = "method2"
          /\ UNCHANGED <<text, ret, accepted>>
       \/ \E raw_text \in OcrTexts :
            /\ text' = clean_ocr_text(raw_text)
            /\ IF is_valid_meter_reading(text')
               THEN /\ accepted' = accepted \cup {text'}
                    /\ outcome' = [outcome EXCEPT !["Primary"] = "valid"]
                    /\ ret' = text'
                    /\ pc' = "done"
               ELSE /\ outcome' = [outcome EXCEPT !["Primary"] = "invalid"]
                    /\ pc' = "method2"
                    /\ UNCHANGED <<ret, accepted>>
    /\ UNCHANGED <<image_np, result, raised, pureVars, sweepVars>>

\* mutant: the cleaned text is returned without asking the validator
Method2_ReturnsUnvalidated ==
    /\ pc = "method2"
    /\ trace' = Append(trace, "Enhanced")
    /\ \/ /\ outcome' = [outcome EXCEPT !["Enhanced"] = "raised"]
          /\ pc' = "method3"
          /\ UNCHANGED <<text, ret, accepted>>
       \/ \E raw_text \in OcrTexts :
            /\ text' = clean_ocr_text(raw_text)
            /\ outcome' = [outcome EXCEPT !["Enhanced"] = "invalid"]
            /\ ret' = text'
            /\ pc' = "done"
            /\ UNCHANGED accepted
    /\ UNCHANGED <<image_np, result, raised, pureVars, sweepVars>>

\* Method 2: OCR of the contrast-enhanced image binarized at 150
Method2 ==
    /\ pc = "method2"
    /\ trace' = Append(trace, "Enhanced")
    /\ \/ /\ outcome' = [outcome EXCEPT !["Enhanced"] = "raised"]
          /\ pc' = "method3"
          /\ UNCHANGED <<text, ret, accepted>>
       \/ \E raw_text \in OcrTexts :
            /\ text' = clean_ocr_text(raw_text)
            /\ IF is_valid_meter_reading(text')
               THEN /\ accepted' = accepted \cup {text'}
                    /\ outcome' = [outcome EXCEPT !["Enhanced"] = "valid"]
                    /\ ret' = text'
                    /\ pc' = "done"
               ELSE /\ outcome' = [outcome EXCEPT !["Enhanced"] = "invalid"]
                    /\ pc' = "method3"
                    /\ UNCHANGED <<ret, accepted>>
    /\ UNCHANGED <<image_np, result, raised, pureVars, sweepVars>>

\* the except: of extract_digits_from_contours: return ""
ContourError ==
    /\ result' = EmptyStr
    /\ outcome' = [outcome EXCEPT !["Contour"] = "raised"]
    /\ pc' = "method3_check"

\* Method 3 calls extract_digits_from_contours: grayscale, CLAHE,
\* best_digits = "", best_count = 0
ContourCall ==
    /\ pc = "method3"
    /\ trace' = Append(trace, "Contour")
    /\ \/ /\ best_digits' = EmptyStr
          /\ best_count' = 0
          /\ thresh_idx' = 1
          /\ pc' = "sweep"
          /\ UNCHANGED <<result, outcome>>
       \/ /\ ContourError
          /\ UNCHANGED <<best_digits, best_count, thresh_idx>>
    /\ UNCHANGED <<image_np, text, ret, raised, accepted, tried, pureVars>>

\* mutant: a usable threshold always overwrites the best so far
SweepStep_LastWins ==
    /\ pc = "sweep"
    /\ thresh_idx <= Len(ThreshVals)
    /\ \/ \E n \in RegionCounts :
            /\ tried' = Append(tried, [thresh_val |-> ThreshVals[thresh_idx],
                                       regions |-> n])
            /\ IF MinDigits <= n /\ n <= MaxDigits
               THEN /\ best_digits' = Placeholder(n)
                    /\ best_count' = n
               ELSE UNCHANGED <<best_digits, best_count>>
            /\ thresh_idx' = thresh_idx + 1
            /\ UNCHANGED <<pc, result, outcome>>
       \/ /\ ContourError
          /\ UNCHANGED <<best_digits, best_count, thresh_idx, tried>>
    /\ UNCHANGED <<image_np, text, ret, raised, trace, accepted, pureVars>>

\* one iteration of for thresh_val in [100, 127, 150, 180]
SweepStep ==
    /\ pc = "sweep"
    /\ thresh_idx <= Len(ThreshVals)
    /\ \/ \E n \in RegionCounts :
            /\ tried' = Append(tried, [thresh_val |-> ThreshVals[thresh_idx],
                                       regions |-> n])
            /\ IF MinDigits <= n /\ n <= MaxDigits /\ n > best_count
               THEN /\ best_digits' = Placeholder(n)
                    /\ best_count' = n
               ELSE UNCHANGED <<best_digits, best_count>>
            /\ thresh_idx' = thresh_idx + 1
            /\ UNCHANGED <<pc, result, outcome>>
       \/ /\ ContourError
          /\ UNCHANGED <<best_digits, best_count, thresh_idx, tried>>
    /\ UNCHANGED <<image_np, text, ret, raised, trace, accepted, pureVars>>

\* after the loop: return best_digits if it is non-empty, else ""
SweepReturn ==
    /\ pc = "sweep"
    /\ thresh_idx > Len(ThreshVals)
    /\ result' = IF best_digits # EmptyStr THEN best_digits ELSE EmptyStr
    /\ outcome' = [outcome EXCEPT !["Contour"] = "returned"]
    /\ pc' = "method3_check"
    /\ UNCHANGED <<image_np, text, ret, raised, trace, accepted, pureVars, sweepVars>>

\* if result and is_valid_meter_reading(result): return result; return ""
Method3Check ==
    /\ pc = "method3_check"
    /\ IF result # EmptyStr /\ is_valid_meter_reading(result)
       THEN /\ accepted' = accepted \cup {result}
            /\ ret' = result
       ELSE /\ ret' = EmptyStr
            /\ UNCHANGED accepted
    /\ pc' = "done"
    /\ UNCHANGED <<image_np, text, result, raised, trace, outcome, pureVars, sweepVars>>

Next ==
    \/ Decode
    \/ Method1
    \/ Method2
    \/ ContourCall
    \/ SweepStep
    \/ SweepReturn
    \/ Method3Check

Spec == Init /\ [][Next]_vars

TypeOK ==
    /\ pc \in {"decode", "method1", "method2", "method3", "sweep",
               "method3_check", "done"}
    /\ image_np \in {"unset", "array"}
    /\ raised \in BOOLEAN
    /\ best_count \in 0..MaxDigits
    /\ thresh_idx \in 0..(Len(ThreshVals) + 1)
    /\ Len(trace) <= 3

\* ------------------------------------------------------------------ claims

IsPrefix(s, t) == Len(s) <= Len(t) /\ \A i \in 1..Len(s) : s[i] = t[i]

FullOrder == <<"Primary", "Enhanced", "Contour">>

\* the thresholds tried whose region count is usable
Usable == {i \in 1..Len(tried) : tried[i].regions >= 4 /\ tried[i].regions <= 7}

\* the digits 0, 1, 2, ... in a row, n of them
Consecutive(n) == SubSeq(<<"0", "1", "2", "3", "4", "5", "6">>, 1, n)

\* C1: the value extract_meter_reading returns is the empty string or a
\* string is_valid_meter_reading accepted in the same run; a rejected text
\* is never returned.
C1_ReturnsOnlyAccepted ==
    pc = "done" => (ret = EmptyStr \/ ret \in accepted)

C1_Witness ==
    /\ pc = "done"
    /\ outcome["Primary"] = "invalid"
    /\ outcome["Enhanced"] = "invalid"
    /\ text = <<"1", "\n", "2">>
    /\ ret = <<"0", "1", "2", "3">>

\* C2: when Primary yields a valid candidate it is returned and neither
\* Enhanced nor Contour is invoked; when Enhanced yields a valid candidate
\* it is returned and Contour is not invoked.
C2_ShortCircuit ==
    /\ outcome["Primary"] = "valid" =>
          /\ pc = "done"
          /\ ret = text
          /\ accepted = {ret}
          /\ trace = <<"Primary">>
    /\ outcome["Enhanced"] = "valid" =>
          /\ pc = "done"
          /\ ret = text
          /\ accepted = {ret}
          /\ trace = <<"Primary", "Enhanced">>

C2_Witness ==
    /\ pc = "done"
    /\ outcome["Primary"] = "valid"
    /\ ret = <<"1", "2", "1", "2">>

C4_RaiseAdvances ==
    /\ ~raised
    /\ outcome["Primary"] \in {"raised", "invalid"} =>
          \/ pc = "method2" /\ trace = <<"Primary">>
          \/ Len(trace) >= 2 /\ trace[2] = "Enhanced"
    /\ outcome["Enhanced"] \in {"raised", "invalid"} =>
          \/ pc = "method3" /\ trace = <<"Primary", "Enhanced">>
          \/ Len(trace) >= 3 /\ trace[3] = "Contour"

C4_Witness ==
    /\ pc = "done"
    /\ outcome["Primary"] = "raised"
    /\ outcome["Enhanced"] = "raised"
    /\ trace = FullOrder

\* C5: extract_meter_reading never raises; it returns a string, and the
\* empty string whenever no strategy yielded a valid candidate.
C5_NeverRaises ==
    /\ ~raised
    /\ pc = "done" =>
          /\ ret \in Seq(Digits \cup Whitespace)
          /\ accepted = {} => ret = EmptyStr

C5_Witness ==
    /\ pc = "done"
    /\ image_np = "unset"
    /\ ret = EmptyStr
    /\ ~raised

\* C6: is_valid_meter_reading accepts exactly the strings made only of
\* digits, of length 4 to 7, with at least 2 distinct digit values; it
\* rejects the empty string, a string with a non-digit, one shorter than 4,
\* one longer than 7, and a single digit repeated.
C6_ValidatorExact ==
    pc = "validated" =>
        (verdict <=>
            /\ \A i \in 1..Len(reading) : reading[i] \in Digits
            /\ Len(reading) >= 4
            /\ Len(reading) <= 7
            /\ \E i, j \in 1..Len(reading) : reading[i] # reading[j])

C6_Witness ==
    /\ pc = "validated"
    /\ reading = <<"1", "1", "1", "1">>
    /\ verdict = FALSE

\* C7: the output of clean_ocr_text is a digit-only string: no character
\* other than 0-9 remains (all punctuation and all whitespace, also between
\* digits, is removed).
C7_DigitOnly ==
    pc = "cleaned" => \A i \in 1..Len(cleaned) : cleaned[i] \in Digits

\* what C8 says each input character becomes: a digit stays, O becomes 0,
\* I | [ ] become 1, anything else is dropped
RECURSIVE Substituted(_)
Substituted(s) ==
    IF s = << >> THEN << >>
    ELSE LET c == Head(s)
             out == IF c \in Digits THEN <<c>>
                    ELSE IF c = "O" THEN <<"0">>
                    ELSE IF c \in {"I", "|", "[", "]"} THEN <<"1">>
                    ELSE << >>
         IN  out \o Substituted(Tail(s))

\* C8: clean_ocr_text keeps every digit in order, replaces O by 0 and
\* I, |, [, ] by 1 in place, and drops every other character; "12O34I"
\* yields "120341".
C8_SubstituteAndDrop ==
    pc = "cleaned" => cleaned = Substituted(raw)

\* C9 as stated: the thresholds are swept in the order 100, 127, 150, 180,
\* the threshold yielding the most accepted regions among all those tried is
\* the one selected, and the result is empty when no threshold is usable.
C9_Original ==
    (pc = "method3_check" /\ outcome["Contour"] = "returned") =>
        /\ [i \in 1..Len(tried) |-> tried[i].thresh_val] = <<100, 127, 150, 180>>
        /\ Usable = {} => result = EmptyStr
        /\ Usable # {} =>
              \A i \in 1..Len(tried) : tried[i].regions <= best_count

\* C9 amended: the thresholds are swept in the order 100, 127, 150, 180; a
\* threshold is usable only if its region count is 4 to 7; among the usable
\* thresholds the one yielding the most regions is selected, whatever the
\* other thresholds yield; the result is empty exactly when none is usable.
C9_BestUsable ==
    (pc = "method3_check" /\ outcome["Contour"] = "returned") =>
        /\ [i \in 1..Len(tried) |-> tried[i].thresh_val] = <<100, 127, 150, 180>>
        /\ Usable = {} <=> result = EmptyStr
        /\ Usable = {} => best_count = 0
        /\ Usable # {} =>
              /\ \E i \in Usable : tried[i].regions = best_count
              /\ \A i \in Usable : tried[i].regions <= best_count
              /\ Len(result) = best_count

C9_Witness ==
    /\ pc = "method3_check"
    /\ outcome["Contour"] = "returned"
    /\ tried[1].regions = 5
    /\ tried[2].regions = 8
    /\ tried[3].regions = 6
    /\ tried[4].regions = 4
    /\ best_count = 6

\* C10: when Contour is reached and completes without error, a non-empty
\* output is the consecutive digits 0, 1, 2, ... of the selected region
\* count (4 to 7) and passes is_valid_meter_reading; extract_meter_reading
\* then returns the empty string only when no threshold yields 4 to 7
\* regions, and otherwise that placeholder.
C10_PlaceholderReturned ==
    (pc = "done" /\ outcome["Contour"] = "returned") =>
        /\ result # EmptyStr =>
              /\ best_count >= 4
              /\ best_count <= 7
              /\ result = Consecutive(best_count)
              /\ result \in accepted
        /\ ret = EmptyStr <=> Usable = {}
        /\ ret # EmptyStr =>
              \E i \in Usable :
                 /\ \A j \in Usable : tried[j].regions <= tried[i].regions
                 /\ ret = Consecutive(tried[i].regions)

C10_Witness ==
    /\ pc = "done"
    /\ outcome["Contour"] = "returned"
    /\ tried[3].regions = 5
    /\ ret = <<"0", "1", "2", "3", "4">>

====
